---- MODULE Spec2Model ----
(***************************************************************************)
(* A model of the keyd daemon core (src/daemon.c): the configuration       *)
(* registry, the device table, the virtual keyboard's key state, the       *)
(* layer listener set, the IPC command handler and the event handler.      *)
(*                                                                         *)
(* Every action is one call of event_handler, run to completion.  What a   *)
(* handler does on the way (calls into keyboards, the virtual keyboard,    *)
(* writes and closes on connections) is recorded, in call order, in `out`, *)
(* which is reset at every handler entry.                                  *)
(***************************************************************************)
EXTENDS Integers, Sequences, FiniteSets, TLC

VARIABLES
    configs,     \* static struct config_ent *configs: list, head first
    devices,     \* devices[0..nr_devices-1], as a sequence of device handles
    dev,         \* the device objects: handle -> struct device
    keystate,    \* uint8_t keystate[256]
    listeners,   \* listeners[0..nr_listeners-1], as a sequence of connections
    last_kbd,    \* static struct keyboard *last_kbd (0 is NULL)
    vkbd,        \* key state as seen by the virtual keyboard device
    cons,        \* the open IPC connections (descriptors)
    timer,       \* delay armed in the event loop (0: no timer pending)
    alive,       \* FALSE once the process has called exit
    ev,          \* the event the last handler call was given
    out          \* calls made by the last handler call, in order

vars == <<configs, devices, dev, keystate, listeners, last_kbd, vkbd, cons,
          timer, alive, ev, out>>

----------------------------------------------------------------------------
(* Bounds of the model *)

MaxConfigs == 2        \* .conf files in the configuration directory
MaxDevs == 2           \* device objects alive at once
MaxCons == 3           \* IPC connections accepted in one run
MaxDelay == 1          \* largest delay a keyboard asks for
MAX_LAYER_NAME_LEN == 3  \* keyd.h constant, scaled down

(* Program constants *)

MaxListeners == 32     \* ARRAY_SIZE(listeners)
KeystateSize == 256    \* ARRAY_SIZE(keystate)

NULL == 0

VKBD_NAME == "keyd virtual keyboard"

----------------------------------------------------------------------------
(* Generic helpers *)

Min(a, b) == IF a < b THEN a ELSE b

Range(s) == {s[i] : i \in DOMAIN s}

RECURSIVE SeqsUpTo(_, _)
SeqsUpTo(S, n) ==
    IF n = 0 THEN {<<>>}
    ELSE LET shorter == SeqsUpTo(S, n - 1)
         IN  shorter \cup {Append(s, x) : s \in {t \in shorter : Len(t) = n - 1}, x \in S}

\* One recorded call: op is the callee, x, y and z its integer arguments (or
\* its result), m its string argument, d its byte-string argument.  A write
\* is recorded with the descriptor (x), the length asked (y), the length
\* returned (z) and the bytes (d).
Call(op, x, y, z) == [op |-> op, x |-> x, y |-> y, z |-> z, m |-> "", d |-> <<>>]
CallM(op, x, m) == [op |-> op, x |-> x, y |-> 0, z |-> 0, m |-> m, d |-> <<>>]
CallD(op, x, y, z, d) == [op |-> op, x |-> x, y |-> y, z |-> z, m |-> "", d |-> d]

Log(s, c) == [s EXCEPT !.out = Append(@, c)]

\* The daemon's globals and its environment, as one value the functions below
\* transform.
State == [configs |-> configs, devices |-> devices, dev |-> dev,
          keystate |-> keystate, listeners |-> listeners, last_kbd |-> last_kbd,
          vkbd |-> vkbd, cons |-> cons, alive |-> alive,
          out |-> <<>>]

----------------------------------------------------------------------------
(* System calls on connections *)

\* xwrite(con, ...) of a response frame or of the rejection line
XWrite(s, con, m) == Log(s, CallM("xwrite", con, m))

\* close(con): the descriptor is released (result 0), or it names no open
\* descriptor (result -1)
Close(s, con) ==
    IF con \in s.cons
    THEN Log([s EXCEPT !.cons = @ \ {con}], Call("close", con, 0, 0))
    ELSE Log(s, Call("close", con, -1, 0))

----------------------------------------------------------------------------
(* Virtual keyboard *)

Codes == 0 .. (KeystateSize - 1)

\* An array of KeystateSize bytes is written as the function that holds its
\* non-zero entries: At reads entry i, Put writes it.
At(a, i) == IF i \in DOMAIN a THEN a[i] ELSE 0

Put(a, i, v) ==
    IF v = 0 THEN [j \in DOMAIN a \ {i} |-> a[j]]
    ELSE [j \in DOMAIN a \cup {i} |-> IF j = i THEN v ELSE a[j]]

AllZero == [j \in {} |-> 0]

\* vkbd_send_key(vkbd, code, state): the device now reports code in that state
VkbdSendKey(s, code, state) ==
    Log([s EXCEPT !.vkbd = Put(@, code, state)], Call("vkbd_send_key", code, state, 0))

\* The loop of clear_vkbd from index i on: the indices whose keystate is 0 are
\* passed over, so the loop goes from one pressed code to the next.
RECURSIVE ClearLoop(_, _)
ClearLoop(s, i) ==
    LET pressed == {c \in Codes : c >= i /\ At(s.keystate, c) # 0}
    IN  IF pressed = {} THEN s
        ELSE LET c == CHOOSE p \in pressed : \A q \in pressed : p <= q
             IN  ClearLoop([VkbdSendKey(s, c, 0) EXCEPT !.keystate = Put(@, c, 0)],
                           c + 1)

\* clear_vkbd()
clear_vkbd(s) == ClearLoop(s, 0)

send_keyMut(s, code, state) == VkbdSendKey(s, code % 256, state % 256)

\* send_key(uint8_t code, uint8_t state)
send_key(s, code, state) ==
    VkbdSendKey([s EXCEPT !.keystate = Put(@, code % 256, state % 256)],
                code % 256, state % 256)

----------------------------------------------------------------------------
(* Layer listeners *)

REJECT == "Max listeners exceeded\n"

add_listenerMut(s, con) ==
    IF Len(s.listeners) > MaxListeners
    THEN Close(XWrite(s, con, REJECT), con)
    ELSE Log([s EXCEPT !.listeners = Append(@, con)], Call("setsockopt", con, 0, 0))

add_listener(s, con) ==
    IF Len(s.listeners) = MaxListeners
    THEN Close(XWrite(s, con, REJECT), con)
    ELSE Log([s EXCEPT !.listeners = Append(@, con)], Call("setsockopt", con, 0, 0))

\* snprintf(buf, size, ...) of the formatted string str: the buffer holds the
\* first size-1 bytes and a terminating 0; the result is the untruncated length.
Snprintf(size, str) ==
    [buf |-> SubSeq(str, 1, Min(Len(str), size - 1)) \o <<0>>, n |-> Len(str)]

\* "%c%s\n", state ? '+' : '-', name
LayerLine(name, state) == <<(IF state # 0 THEN 43 ELSE 45)>> \o name \o <<10>>

\* write(con, buf, bufsz): short gives what the write returns on the
\* connections where it does not return bufsz (-1: error or timeout, 1: one
\* byte taken)
Write(con, bufsz, short) == IF con \in DOMAIN short THEN short[con] ELSE bufsz

RECURSIVE LayerLoopMut(_, _, _, _, _, _)
LayerLoopMut(s, i, keep, buf, bufsz, short) ==
    IF i > Len(s.listeners)
    THEN IF Len(keep) # Len(s.listeners) THEN [s EXCEPT !.listeners = keep] ELSE s
    ELSE LET con == s.listeners[i]
             nw == Write(con, bufsz, short)
             w == Log(s, CallD("write", con, bufsz, nw,
                               SubSeq(buf, 1, Min(bufsz, Len(buf)))))
         IN  IF nw = bufsz
             THEN LayerLoopMut(w, i + 1, Append(keep, con), buf, bufsz, short)
             ELSE [Close(w, con) EXCEPT !.listeners = keep \o SubSeq(@, i + 1, Len(@))]

\* The loop of layer_observer from index i on; keep is keep[0..n-1]
RECURSIVE LayerLoop(_, _, _, _, _, _)
LayerLoop(s, i, keep, buf, bufsz, short) ==
    IF i > Len(s.listeners)
    THEN IF Len(keep) # Len(s.listeners) THEN [s EXCEPT !.listeners = keep] ELSE s
    ELSE LET con == s.listeners[i]
             nw == Write(con, bufsz, short)
             w == Log(s, CallD("write", con, bufsz, nw,
                               SubSeq(buf, 1, Min(bufsz, Len(buf)))))
         IN  IF nw = bufsz
             THEN LayerLoop(w, i + 1, Append(keep, con), buf, bufsz, short)
             ELSE LayerLoop(Close(w, con), i + 1, keep, buf, bufsz, short)

\* layer_observer(name, state); the call is recorded with state (x) and name (d)
layer_observer(s, name, state, short) ==
    LET c == Log(s, CallD("layer_observer", state, 0, 0, name))
    IN  IF Len(c.listeners) = 0 THEN c
        ELSE LET f == Snprintf(MAX_LAYER_NAME_LEN + 2, LayerLine(name, state))
             IN  LayerLoop(c, 1, <<>>, f.buf, f.n, short)

----------------------------------------------------------------------------
(* Configuration registry *)

\* What exit() does: the process is gone.  cleanup() (registered by atexit
\* once the daemon runs) frees the registry first.
RECURSIVE FreeLoop(_)
FreeLoop(s) ==
    IF s.configs = <<>> THEN s
    ELSE FreeLoop(Log([s EXCEPT !.configs = Tail(@)],
                      Call("free", Head(s.configs).kbd, 0, 0)))

\* free_configs()
free_configs(s) == FreeLoop(s)

Exit(s) == [free_configs(s) EXCEPT !.alive = FALSE]

\* config_check_match(&ent->config, id): what the parsed file says of id
config_check_match(config, id) == config.match[id]

\* new_keyboard(&ent->config, send_key, layer_observer): a new object.  It is
\* named by the least number that names no object the daemon still refers to,
\* so that a keyboard freed earlier and still referred to keeps a name of its
\* own.
Referred(s) ==
    {s.last_kbd} \cup {s.configs[i].kbd : i \in DOMAIN s.configs}
                 \cup {s.dev[d].data : d \in DOMAIN s.dev}

NewKeyboard(s) ==
    CHOOSE k \in 1 .. (Cardinality(Referred(s)) + 1) :
        k \notin Referred(s) /\ \A j \in 1 .. (k - 1) : j \in Referred(s)

\* The readdir loop of load_configs over the directory entries ents[i..].
\* A directory entry is [isdir, conf, ok, match]: a directory or not, a name
\* ending in ".conf" or not, whether config_parse accepts it, and the
\* matcher config_parse builds from it.  The parsed config keeps its path,
\* which the entry's place in the directory stands for.
RECURSIVE LoadLoop(_, _, _)
LoadLoop(s, ents, i) ==
    IF i > Len(ents) THEN s
    ELSE LET e == ents[i] IN
         IF e.isdir THEN LoadLoop(s, ents, i + 1)
         ELSE IF ~e.conf THEN LoadLoop(s, ents, i + 1)
         ELSE IF ~e.ok THEN Exit(Log(s, Call("die", i, 0, 0)))
         ELSE LET ent == [config |-> [path |-> i, match |-> e.match],
                         kbd |-> NewKeyboard(s)]
              IN  LoadLoop([s EXCEPT !.configs = <<ent>> \o @], ents, i + 1)

\* load_configs(): disk is what opendir/readdir find in CONFIG_DIR
load_configs(s, disk) ==
    IF ~disk.opened THEN Exit(Log(s, Call("exit", 0, 0, 0)))
    ELSE LoadLoop(Log([s EXCEPT !.configs = <<>>], Call("load_configs", 0, 0, 0)),
                  disk.ents, 1)

RECURSIVE LookupLoopMut(_, _, _, _, _)
LookupLoopMut(cfgs, id, i, rank, match) ==
    IF i > Len(cfgs) THEN [rank |-> rank, match |-> match]
    ELSE LET r == config_check_match(cfgs[i].config, id)
         IN  IF r >= rank /\ r > 0 THEN LookupLoopMut(cfgs, id, i + 1, r, i)
                                   ELSE LookupLoopMut(cfgs, id, i + 1, rank, match)

\* The loop of lookup_config_ent from entry i on.  An entry is named by its
\* position in the list, 0 for NULL.
RECURSIVE LookupLoop(_, _, _, _, _)
LookupLoop(cfgs, id, i, rank, match) ==
    IF i > Len(cfgs) THEN [rank |-> rank, match |-> match]
    ELSE LET r == config_check_match(cfgs[i].config, id)
         IN  IF r > rank THEN LookupLoop(cfgs, id, i + 1, r, i)
                         ELSE LookupLoop(cfgs, id, i + 1, rank, match)

\* lookup_config_ent(id, &match)
lookup_config_ent(cfgs, id) == LookupLoop(cfgs, id, 1, 0, 0)

----------------------------------------------------------------------------
(* Devices *)

CAP_KEYBOARD == "CAP_KEYBOARD"
CAP_MOUSE == "CAP_MOUSE"
CAP_MOUSE_ABS == "CAP_MOUSE_ABS"

\* dev->vendor_id << 16 | dev->product_id: the 32-bit id, written as its high
\* and low 16-bit halves (vendor_id and product_id are 16 bits wide)
DevId(d) == <<d.vendor_id % 65536, d.product_id % 65536>>

\* device_grab(dev): 0 when the device is (now) grabbed, non-zero when the
\* grab failed; ok tells whether the system grants a grab asked for now.
DeviceGrab(s, d, ok) ==
    IF s.dev[d].grabbed THEN [s |-> Log(s, Call("device_grab", d, 0, 0)), rc |-> 0]
    ELSE IF ok THEN [s |-> Log([s EXCEPT !.dev[d].grabbed = TRUE],
                               Call("device_grab", d, 0, 0)), rc |-> 0]
    ELSE [s |-> Log(s, Call("device_grab", d, -1, 0)), rc |-> -1]

\* device_ungrab(dev)
DeviceUngrab(s, d) ==
    Log([s EXCEPT !.dev[d].grabbed = FALSE], Call("device_ungrab", d, 0, 0))

\* for (i = 0; i < nr_devices; i++) manage_device(devices[i]) left out
ManageLoopMut(s, i, grabOk) == s

manage_deviceMut(s, d, grabOk) ==
    LET id == DevId(s.dev[d])
        r == lookup_config_ent(s.configs, id)
        caps == s.dev[d].capabilities
    IN  IF (r.rank # 0 /\ CAP_KEYBOARD \in caps)
           \/ (r.rank # 0 /\ caps \cap {CAP_MOUSE, CAP_MOUSE_ABS} # {})
        THEN LET g == DeviceGrab(s, d, grabOk)
             IN  IF g.rc # 0 THEN [g.s EXCEPT !.dev[d].data = NULL]
                 ELSE [g.s EXCEPT !.dev[d].data = s.configs[r.match].kbd]
        ELSE DeviceUngrab([s EXCEPT !.dev[d].data = NULL], d)

manage_deviceGrab(s, d, grabOk) ==
    LET r == lookup_config_ent(s.configs, DevId(s.dev[d]))
        caps == s.dev[d].capabilities
    IN  IF (r.rank # 0 /\ CAP_KEYBOARD \in caps)
           \/ (r.rank = 2 /\ caps \cap {CAP_MOUSE, CAP_MOUSE_ABS} # {})
        THEN [DeviceGrab(s, d, grabOk).s EXCEPT !.dev[d].data = s.configs[r.match].kbd]
        ELSE DeviceUngrab([s EXCEPT !.dev[d].data = NULL], d)

\* manage_device(dev)
manage_device(s, d, grabOk) ==
    LET id == DevId(s.dev[d])
        r == lookup_config_ent(s.configs, id)
        caps == s.dev[d].capabilities
    IN  IF (r.rank # 0 /\ CAP_KEYBOARD \in caps)
           \/ (r.rank = 2 /\ caps \cap {CAP_MOUSE, CAP_MOUSE_ABS} # {})
        THEN LET g == DeviceGrab(s, d, grabOk)
             IN  IF g.rc # 0 THEN [g.s EXCEPT !.dev[d].data = NULL]
                 ELSE [g.s EXCEPT !.dev[d].data = s.configs[r.match].kbd]
        ELSE DeviceUngrab([s EXCEPT !.dev[d].data = NULL], d)

\* for (i = 0; i < nr_devices; i++) manage_device(devices[i]);
\* grabOk is the set of devices the system grants a grab on.
RECURSIVE ManageLoop(_, _, _)
ManageLoop(s, i, grabOk) ==
    IF i > Len(s.devices) THEN s
    ELSE ManageLoop(manage_device(Log(s, Call("manage_device", s.devices[i], 0, 0)),
                                  s.devices[i], s.devices[i] \in grabOk),
                    i + 1, grabOk)

reloadMut(s, disk, grabOk) ==
    LET l == load_configs(free_configs(Log(s, Call("reload", 0, 0, 0))), disk)
    IN  IF ~l.alive THEN l ELSE ManageLoop(clear_vkbd(l), 1, grabOk)

\* reload()
reload(s, disk, grabOk) ==
    LET l == load_configs(free_configs(Log(s, Call("reload", 0, 0, 0))), disk)
    IN  IF ~l.alive THEN l ELSE clear_vkbd(ManageLoop(l, 1, grabOk))

\* remove_device(dev)
remove_deviceClear(s, d) ==
    clear_vkbd([s EXCEPT !.devices = SelectSeq(@, LAMBDA x : x # d),
                         !.last_kbd = NULL])

remove_deviceMut(s, d) ==
    [s EXCEPT !.devices = SubSeq(@, 1, Len(@) - 1)]

remove_device(s, d) ==
    [s EXCEPT !.devices = SelectSeq(@, LAMBDA x : x # d)]

\* The capacity of the device table.  The event loop holds as many device
\* objects at most.
MAX_DEVICES == MaxDevs

\* abort(): the process is gone, and no exit handler runs
Abort(s) == [Log(s, Call("abort", 0, 0, 0)) EXCEPT !.alive = FALSE]

\* add_device(dev)
add_device(s, d, grabOk) ==
    IF ~(Len(s.devices) < MAX_DEVICES) THEN Abort(s)
    ELSE manage_device([s EXCEPT !.devices = Append(@, d)], d, grabOk)

----------------------------------------------------------------------------
(* Keyboards (keyboard.c is not part of the daemon core: a keyboard is any  *)
(* object that answers a key event with some callbacks and a delay)         *)

\* One callback a keyboard makes while it processes a key event
SendKeyCb(code, state) ==
    [fn |-> "send_key", code |-> code, state |-> state, name |-> <<>>, short |-> <<>>]
LayerCb(name, state, short) ==
    [fn |-> "layer_observer", code |-> 0, state |-> state, name |-> name, short |-> short]

RECURSIVE Callbacks(_, _)
Callbacks(s, cbs) ==
    IF cbs = <<>> THEN s
    ELSE LET cb == Head(cbs)
         IN  Callbacks(IF cb.fn = "send_key" THEN send_key(s, cb.code, cb.state)
                       ELSE layer_observer(s, cb.name, cb.state, cb.short),
                       Tail(cbs))

\* kbd_process_key_event(kbd, code, pressed), a keyboard behaving as beh says:
\* it makes the callbacks beh.cbs, then returns beh.delay.
KbdProcessKeyEvent(s, kbd, code, pressed, beh) ==
    [s |-> Callbacks(Log(s, Call("kbd_process_key_event", kbd, code, pressed)), beh.cbs),
     ret |-> beh.delay]

\* kbd_eval(kbd, exp) returning rc
KbdEval(s, kbd, rc) == Log(s, Call("kbd_eval", kbd, rc, 0))

----------------------------------------------------------------------------
(* IPC *)

\* send_success(con)
send_success(s, con) == Close(XWrite(s, con, "SUCCESS"), con)

send_failMut(s, con, text) == XWrite(s, con, text)

\* send_fail(con, fmt, ...): text names the formatted message
send_fail(s, con, text) == Close(XWrite(s, con, text), con)

FAIL_ERRSTR == "FAIL errstr"
FAIL_UNKNOWN == "FAIL Unknown command"

RECURSIVE BindLoopMut(_, _, _, _)
BindLoopMut(s, i, evals, success) ==
    IF i > Len(s.configs) \/ success = 1 THEN [s |-> s, success |-> success]
    ELSE BindLoopMut(KbdEval(s, s.configs[i].kbd, evals[i]), i + 1, evals,
                     IF evals[i] = 0 THEN 1 ELSE success)

\* for (ent = configs; ent; ent = ent->next) if (!kbd_eval(...)) success = 1;
\* evals[i] is what kbd_eval returns for the i-th entry.
RECURSIVE BindLoop(_, _, _, _)
BindLoop(s, i, evals, success) ==
    IF i > Len(s.configs) THEN [s |-> s, success |-> success]
    ELSE BindLoop(KbdEval(s, s.configs[i].kbd, evals[i]), i + 1, evals,
                  IF evals[i] = 0 THEN 1 ELSE success)

\* handle_client(con): msg is what xread leaves in the message buffer
handle_client(s, con, in) ==
    LET r == Log(s, CallM("xread", con, in.msg)) IN
    CASE in.msg = "IPC_RELOAD" ->
            LET l == reload(r, in.disk, in.grabOk)
            IN  IF ~l.alive THEN l ELSE send_success(l, con)
      [] in.msg = "IPC_LAYER_LISTEN" -> add_listener(r, con)
      [] in.msg = "IPC_BIND" ->
            LET b == BindLoop(r, 1, in.evals, 0)
            IN  IF b.success # 0 THEN send_success(b.s, con)
                ELSE send_fail(b.s, con, FAIL_ERRSTR)
      [] OTHER -> send_fail(r, con, FAIL_UNKNOWN)

----------------------------------------------------------------------------
(* The event handler *)

KEYD_EXTERNAL_MOUSE_BUTTON == 254

Ret(s, v) == [s |-> s, ret |-> v]

HandleDevEventUnbound(s, e, in) ==
    IF s.dev[e.dev].data = NULL THEN Ret(s, 0)
    ELSE KbdProcessKeyEvent([s EXCEPT !.last_kbd = s.dev[e.dev].data],
                            s.dev[e.dev].data, e.code, e.pressed, in.beh1)

HandleDevEventRearm(s, e, in) ==
    IF s.dev[e.dev].data = NULL THEN Ret(s, MaxDelay)
    ELSE KbdProcessKeyEvent([s EXCEPT !.last_kbd = s.dev[e.dev].data],
                            s.dev[e.dev].data, e.code, e.pressed, in.beh1)

HandleDevEventScroll(s, e, in) ==
    LET data == s.dev[e.dev].data IN
    IF data = NULL THEN Ret(s, e.timeleft)
    ELSE LET l == [s EXCEPT !.last_kbd = data] IN
         IF e.devev = "DEV_MOUSE_SCROLL"
         THEN LET k1 == KbdProcessKeyEvent(l, data, KEYD_EXTERNAL_MOUSE_BUTTON, 1, in.beh1)
                  k2 == KbdProcessKeyEvent(k1.s, data, KEYD_EXTERNAL_MOUSE_BUTTON, 0,
                                           in.beh2)
              IN  Ret(Log(k2.s, Call("vkbd_mouse_scroll", e.x, e.y, 0)), k2.ret)
         ELSE KbdProcessKeyEvent(l, data, e.code, e.pressed, in.beh1)

\* case EV_DEV_EVENT
HandleDevEvent(s, e, in) ==
    LET data == s.dev[e.dev].data IN
    IF data = NULL THEN Ret(s, e.timeleft)
    ELSE LET l == [s EXCEPT !.last_kbd = data] IN
         CASE e.devev = "DEV_KEY" ->
                 KbdProcessKeyEvent(l, data, e.code, e.pressed, in.beh1)
           [] e.devev = "DEV_MOUSE_MOVE" ->
                 Ret(Log(l, Call("vkbd_mouse_move", e.x, e.y, 0)), e.timeleft)
           [] e.devev = "DEV_MOUSE_MOVE_ABS" ->
                 Ret(Log(l, Call("vkbd_mouse_move_abs", e.x, e.y, 0)), e.timeleft)
           [] e.devev = "DEV_MOUSE_SCROLL" ->
                 LET k == IF l.last_kbd # NULL
                          THEN KbdProcessKeyEvent(
                                   KbdProcessKeyEvent(l, l.last_kbd,
                                       KEYD_EXTERNAL_MOUSE_BUTTON, 1, in.beh1).s,
                                   l.last_kbd, KEYD_EXTERNAL_MOUSE_BUTTON, 0, in.beh2).s
                          ELSE l
                 IN  Ret(Log(k, Call("vkbd_mouse_scroll", e.x, e.y, 0)), e.timeleft)
           [] OTHER -> Ret(l, e.timeleft)

\* accept(ipcfd, NULL, 0): a new connection, on the lowest descriptor that is
\* not open
LowestFree(S) ==
    CHOOSE k \in 1 .. (Cardinality(S) + 1) :
        k \notin S /\ \A j \in 1 .. (k - 1) : j \in S

Accept(s) ==
    LET con == LowestFree(s.cons)
    IN  [s |-> Log([s EXCEPT !.cons = @ \cup {con}], Call("accept", con, 0, 0)),
         con |-> con]

event_handlerMut(s, e, in) ==
    IF e.type = "EV_DEV_ADD" THEN Ret(add_device(s, e.dev, e.dev \in in.grabOk), 0)
    ELSE Ret(s, 0)

\* event_handler(ev); in holds what the environment answers during the call
event_handler(s, e, in) ==
    CASE e.type = "EV_TIMEOUT" ->
            IF s.last_kbd = NULL THEN Ret(s, 0)
            ELSE KbdProcessKeyEvent(s, s.last_kbd, 0, 0, in.beh1)
      [] e.type = "EV_DEV_EVENT" -> HandleDevEvent(s, e, in)
      [] e.type = "EV_DEV_ADD" ->
            IF s.dev[e.dev].name # VKBD_NAME
            THEN Ret(add_device(s, e.dev, e.dev \in in.grabOk), 0)
            ELSE Ret(s, 0)
      [] e.type = "EV_DEV_REMOVE" -> Ret(remove_device(s, e.dev), 0)
      [] e.type = "EV_FD_ACTIVITY" ->
            IF e.fd = "ipcfd"
            THEN IF ~in.accepted THEN Ret(Exit(Log(s, Call("exit", 0, 0, 0))), 0)
                 ELSE LET a == Accept(s)
                      IN  Ret(handle_client(a.s, a.con, in), 0)
            ELSE Ret(s, 0)
      [] OTHER -> Ret(s, 0)

----------------------------------------------------------------------------
(* The environment's inputs *)

Vendors == {1133, 65535}
Products == {50475}
DevIds == {DevId([vendor_id |-> v, product_id |-> p]) : v \in Vendors, p \in Products}

Ranks == 0 .. 2

ConfFile(m) == [isdir |-> FALSE, conf |-> TRUE, ok |-> TRUE, match |-> m]
NoMatch == [id \in DevIds |-> 0]
SubDir == [isdir |-> TRUE, conf |-> TRUE, ok |-> TRUE, match |-> NoMatch]
OtherFile == [isdir |-> FALSE, conf |-> FALSE, ok |-> TRUE, match |-> NoMatch]
BadConf == [isdir |-> FALSE, conf |-> TRUE, ok |-> FALSE, match |-> NoMatch]

\* The directories with at most n entries drawn from the matchers ms
Disks(ms, n) ==
    {[opened |-> TRUE, ents |-> e] :
        e \in SeqsUpTo({ConfFile(m) : m \in ms} \cup {SubDir, OtherFile, BadConf}, n)}
    \cup {[opened |-> FALSE, ents |-> <<>>]}

NoDev == [vendor_id |-> 0, product_id |-> 0, capabilities |-> {}, name |-> "",
          data |-> NULL, grabbed |-> FALSE]

CapSets == {{}, {CAP_KEYBOARD}, {CAP_MOUSE}, {CAP_MOUSE_ABS}, {CAP_KEYBOARD, CAP_MOUSE}}

\* A device object as the event loop makes it on hotplug
NewDev(v, p, c, n) ==
    [vendor_id |-> v, product_id |-> p, capabilities |-> c, name |-> n,
     data |-> NULL, grabbed |-> FALSE]

DevSlots == 1 .. MAX_DEVICES

NameOfLen(n) == [i \in 1 .. n |-> 96 + i]
LayerNames == {NameOfLen(0), NameOfLen(MAX_LAYER_NAME_LEN)}

\* What a keyboard may do on one key event: at most one callback, then a
\* delay.  codes are the key codes it emits, layers the layers it announces,
\* shorts the sets of listeners whose write comes back short, delays the
\* delays it may ask for.
Behaviours(codes, layers, shorts, delays) ==
    {[cbs |-> c, delay |-> t] :
        c \in {<<>>}
              \cup {<<SendKeyCb(k, st)>> : k \in codes, st \in {0, 1}}
              \cup {<<LayerCb(n, st, sh)>> : n \in layers, st \in {0, 1}, sh \in shorts},
        t \in delays}

Quiet == [cbs |-> <<>>, delay |-> 0]

NoInput == [beh1 |-> Quiet, beh2 |-> Quiet, msg |-> "", evals |-> <<>>,
            disk |-> [opened |-> TRUE, ents |-> <<>>], grabOk |-> {},
            accepted |-> TRUE]

NoEvent == [type |-> "", dev |-> 0, devev |-> "", code |-> 0, pressed |-> 0,
            x |-> 0, y |-> 0, timeleft |-> 0, fd |-> ""]

----------------------------------------------------------------------------
(* Initial state: run_daemon up to the call of evloop *)

Empty == [configs |-> <<>>, devices |-> <<>>, dev |-> [d \in DevSlots |-> NoDev],
          keystate |-> AllZero, listeners |-> <<>>, last_kbd |-> NULL,
          vkbd |-> AllZero, cons |-> {},
          alive |-> TRUE, out |-> <<>>]

Set(s, e, r) ==
    /\ configs = s.configs
    /\ devices = s.devices
    /\ dev = s.dev
    /\ keystate = s.keystate
    /\ listeners = s.listeners
    /\ last_kbd = s.last_kbd
    /\ vkbd = s.vkbd
    /\ cons = s.cons
    /\ alive = s.alive
    /\ out = s.out
    /\ ev = e
    /\ timer = r

\* run_daemon: reload() on the directory disk, which must load (or the
\* daemon never runs)
InitFrom(disks) ==
    \E disk \in disks :
        LET s == reload(Empty, disk, {})
        IN  s.alive /\ Set([s EXCEPT !.out = <<>>], NoEvent, 0)

----------------------------------------------------------------------------
(* The event loop: one action per event type *)

\* evloop arms the timer with what event_handler returned
Commit(r, e) ==
    /\ configs' = r.s.configs
    /\ devices' = r.s.devices
    /\ dev' = r.s.dev
    /\ keystate' = r.s.keystate
    /\ listeners' = r.s.listeners
    /\ last_kbd' = r.s.last_kbd
    /\ vkbd' = r.s.vkbd
    /\ cons' = r.s.cons
    /\ alive' = r.s.alive
    /\ out' = r.s.out
    /\ ev' = e
    /\ timer' = IF r.s.alive THEN r.ret ELSE 0

Handle(e, in) == Commit(event_handler(State, e, in), e)

\* The device objects the event loop holds
Present == {d \in DevSlots : dev[d] # NoDev}

\* The time left of the pending timer when a device event arrives
TimeLeft == IF timer = 0 THEN {0} ELSE 1 .. timer

\* What the writes of one broadcast may return short: any of the listeners
\* whose peer may be slow (P.slow), each with an error or with one byte taken
Shorts(P) ==
    UNION {[S -> {-1, 1}] : S \in SUBSET (P.slow \cap Range(listeners))}

\* What the keyboard kbd may do on one key event (a call that is not made
\* asks for no behaviour)
BehavioursOf(P, kbd, delays) ==
    IF kbd = NULL THEN {Quiet} ELSE Behaviours(P.codes, P.layers, Shorts(P), delays)

Timeout(P) ==
    /\ alive /\ timer > 0
    /\ \E beh \in BehavioursOf(P, last_kbd, P.delays) :
           Handle([NoEvent EXCEPT !.type = "EV_TIMEOUT"],
                  [NoInput EXCEPT !.beh1 = beh])

DevKey(P) ==
    /\ alive
    /\ \E d \in Present, code \in P.keys, pressed \in {0, 1}, tl \in TimeLeft :
       \E beh \in BehavioursOf(P, dev[d].data, P.delays) :
           Handle([NoEvent EXCEPT !.type = "EV_DEV_EVENT", !.dev = d,
                                  !.devev = "DEV_KEY", !.code = code,
                                  !.pressed = pressed, !.timeleft = tl],
                  [NoInput EXCEPT !.beh1 = beh])

DevMouse(P) ==
    /\ alive
    /\ \E d \in Present, tl \in TimeLeft,
          k \in {"DEV_MOUSE_MOVE", "DEV_MOUSE_MOVE_ABS", "DEV_LED"} :
           Handle([NoEvent EXCEPT !.type = "EV_DEV_EVENT", !.dev = d, !.devev = k,
                                  !.x = 1, !.y = 2, !.timeleft = tl],
                  NoInput)

DevScroll(P) ==
    /\ alive
    /\ \E d \in Present, tl \in TimeLeft, y \in {-1} :
       \E b1 \in BehavioursOf(P, dev[d].data, {MaxDelay}),
          b2 \in BehavioursOf(P, dev[d].data, {MaxDelay}) :
           Handle([NoEvent EXCEPT !.type = "EV_DEV_EVENT", !.dev = d,
                                  !.devev = "DEV_MOUSE_SCROLL", !.x = 0, !.y = y,
                                  !.timeleft = tl],
                  [NoInput EXCEPT !.beh1 = b1, !.beh2 = b2])

\* Hotplug: the event loop makes the device object, then reports it
DevAdd(P) ==
    /\ alive
    /\ DevSlots \ Present # {}
    /\ \E a \in P.devs, ok \in P.grabs :
           LET d == CHOOSE x \in DevSlots \ Present : \A z \in DevSlots \ Present : x <= z
               e == [NoEvent EXCEPT !.type = "EV_DEV_ADD", !.dev = d]
           IN  Commit(event_handler([State EXCEPT !.dev[d] = a], e,
                          [NoInput EXCEPT !.grabOk = IF ok THEN {d} ELSE {}]), e)

\* Unplug: the event loop reports the device, then destroys the object
DevRemove(P) ==
    /\ alive
    /\ \E d \in Present :
           LET e == [NoEvent EXCEPT !.type = "EV_DEV_REMOVE", !.dev = d]
               r == event_handler(State, e, NoInput)
           IN  Commit([r EXCEPT !.s.dev[d] = NoDev], e)

IpcEvent == [NoEvent EXCEPT !.type = "EV_FD_ACTIVITY", !.fd = "ipcfd"]

\* The system lets the daemon hold P.conLimit connections open
CanAccept(P) == alive /\ Cardinality(cons) < P.conLimit

FdReload(P) ==
    /\ CanAccept(P)
    /\ \E disk \in P.disks, g \in {Range(devices) \cap x : x \in P.grabSets} :
           Handle(IpcEvent, [NoInput EXCEPT !.msg = "IPC_RELOAD", !.disk = disk,
                                            !.grabOk = g])

FdListen(P) ==
    /\ CanAccept(P)
    /\ Handle(IpcEvent, [NoInput EXCEPT !.msg = "IPC_LAYER_LISTEN"])

FdBind(P) ==
    /\ CanAccept(P)
    /\ \E evals \in [1 .. Len(configs) -> {0, -1}] :
           Handle(IpcEvent, [NoInput EXCEPT !.msg = "IPC_BIND", !.evals = evals])

\* Any other message type, a response type or what an empty read leaves
FdUnknown(P) ==
    /\ CanAccept(P)
    /\ \E m \in P.msgs :
           Handle(IpcEvent, [NoInput EXCEPT !.msg = m])

FdAcceptFails(P) ==
    /\ alive
    /\ Handle(IpcEvent, [NoInput EXCEPT !.accepted = FALSE])

----------------------------------------------------------------------------
(* Spec: keyboards at work.  A keyboard and a pointer device come and go,    *)
(* keys are pressed, timers run, and the configuration is reloaded.          *)

KeyboardOnly == [id \in DevIds |-> IF id = <<1133, 50475>> THEN 1 ELSE 0]
WithPointer == [id \in DevIds |-> IF id = <<1133, 50475>> THEN 0 ELSE 2]

Dir(ents) == [opened |-> TRUE, ents |-> ents]

Main == [disks |-> {Dir(<<ConfFile(KeyboardOnly), ConfFile(WithPointer)>>),
                    Dir(<<ConfFile(KeyboardOnly)>>),
                    Dir(<<SubDir, OtherFile>>),
                    Dir(<<ConfFile(WithPointer), BadConf>>)},
         devs |-> {NewDev(1133, 50475, {CAP_KEYBOARD}, "AT keyboard"),
                   NewDev(65535, 50475, {CAP_MOUSE}, "USB mouse")},
         grabs |-> {TRUE},
         grabSets |-> {DevSlots},
         codes |-> {30},
         layers |-> {},
         delays |-> {0, MaxDelay},
         keys |-> {30},
         msgs |-> {"garbage"},
         slow |-> {},
         conLimit |-> 1]

Init == InitFrom(Main.disks)

Next ==
    \/ Timeout(Main)
    \/ DevKey(Main)
    \/ DevMouse(Main)
    \/ DevScroll(Main)
    \/ DevAdd(Main)
    \/ DevRemove(Main)
    \/ FdReload(Main)

Spec == Init /\ [][Next]_vars

----------------------------------------------------------------------------
(* Properties of Spec *)

\* The positions of the calls of op in the call record o
Idx(o, op) == {i \in DOMAIN o : o[i].op = op}

\* The calls of op in the call record o, in call order
Calls(o, op) == SelectSeq(o, LAMBDA c : c.op = op)

NoDuplicate(q) == \A i, j \in DOMAIN q : q[i] = q[j] => i = j

\* The x arguments of the calls of op in o, in call order
RECURSIVE ArgsOf(_, _)
ArgsOf(o, op) ==
    IF o = <<>> THEN <<>>
    ELSE IF Head(o).op = op THEN <<Head(o).x>> \o ArgsOf(Tail(o), op)
    ELSE ArgsOf(Tail(o), op)

Before(I, J) == \A i \in I, j \in J : i < j

LiveKbds == {configs[i].kbd : i \in DOMAIN configs}

\* The last handler call was an IPC RELOAD that ran to its end
ReloadDone ==
    alive /\ ev.type = "EV_FD_ACTIVITY" /\ Idx(out, "reload") # {}

\* The keyboard of the last call in o that passes a key event other than the
\* tick (code 0, pressed 0); prev when o has no such call
LastKeyed(prev, o) ==
    LET I == {i \in DOMAIN o : /\ o[i].op = "kbd_process_key_event"
                               /\ ~(o[i].y = 0 /\ o[i].z = 0)}
    IN  IF I = {} THEN prev ELSE o[CHOOSE i \in I : \A j \in I : j <= i].x

\* C4 (as claimed): last_kbd is null or is the keyboard that was most recently
\* passed a key event other than a tick, whatever other devices did since:
\* a handler call that passes no such event leaves last_kbd as it was, and one
\* that does leaves it at the keyboard it passed the last one to.
C4_LastKbdIsLastKeyed ==
    [][last_kbd' = NULL \/ last_kbd' = LastKeyed(last_kbd, out')]_vars

\* C5: keystate[c] is the state of the last key event the virtual keyboard was
\* sent for code c, and a clear_vkbd leaves keystate all zero having sent
\* exactly one release for each code the virtual keyboard held pressed and
\* nothing for any other code.
ClearedExactly(before, o) ==
    \A c \in Codes :
        /\ Cardinality({i \in Idx(o, "vkbd_send_key") : o[i].x = c /\ o[i].y = 0})
               = IF At(before, c) # 0 THEN 1 ELSE 0
        /\ {i \in Idx(o, "vkbd_send_key") : o[i].x = c /\ o[i].y # 0} = {}

C5_ClearReleasesPressed ==
    [][/\ keystate' = vkbd'
       /\ ReloadDone' => /\ \A c \in Codes : At(keystate', c) = 0
                         /\ ClearedExactly(vkbd, out')]_vars

C5_Witness ==
    /\ ReloadDone
    /\ \E i \in Idx(out, "vkbd_send_key") : out[i].x = 30 /\ out[i].y = 0

\* C6: an IPC RELOAD frees every old entry, then loads, then binds every
\* device of the table in table order, then releases the pressed keys, and
\* only then writes SUCCESS and closes; at that point keystate is all zero
\* and every bound device of the table refers to a keyboard of the new
\* registry.
ReloadInOrder(o, old) ==
    LET frees == Idx(o, "free")
        load == Idx(o, "load_configs")
        binds == Idx(o, "manage_device") \cup Idx(o, "device_grab")
                     \cup Idx(o, "device_ungrab")
        rels == Idx(o, "vkbd_send_key")
        n == Len(o)
    IN  /\ ArgsOf(o, "free") = [i \in DOMAIN old |-> old[i].kbd]
        /\ Cardinality(load) = 1
        /\ Before(frees, load) /\ Before(load, binds) /\ Before(binds, rels)
        /\ Before(frees \cup load \cup binds \cup rels, {n - 1})
        /\ Idx(o, "xwrite") = {n - 1} /\ o[n - 1].m = "SUCCESS"
        /\ Idx(o, "close") = {n} /\ o[n].x = o[n - 1].x /\ o[n].y = 0
        /\ ArgsOf(o, "accept") = <<o[n].x>>

C6_ReloadThenReply ==
    [][ReloadDone' =>
          /\ ReloadInOrder(out', configs)
          /\ ArgsOf(out', "manage_device") = devices'
          /\ \A c \in Codes : At(keystate', c) = 0
          /\ \A i \in DOMAIN devices' :
                 LET k == dev'[devices'[i]].data
                 IN  k = NULL \/ \E j \in DOMAIN configs' : configs'[j].kbd = k]_vars

C6_Witness ==
    /\ ReloadDone
    /\ Idx(out, "free") # {}
    /\ Idx(out, "vkbd_send_key") # {}
    /\ Len(devices) = 2
    /\ \A i \in DOMAIN devices : dev[devices[i]].data # NULL

\* The last handler call handled a device event of kind k
DevEvent(k) == alive /\ ev.type = "EV_DEV_EVENT" /\ ev.devev = k

\* C11: a device event from a device whose association is null returns the
\* incoming timeleft and changes nothing: no keyboard is called, nothing is
\* sent to the virtual keyboard, and last_kbd, keystate, the device table, the
\* listener set and the registry stay as they are.
C11_UnboundEventIsNoOp ==
    [][(alive' /\ ev'.type = "EV_DEV_EVENT" /\ dev[ev'.dev].data = NULL) =>
          /\ timer' = ev'.timeleft
          /\ out' = <<>>
          /\ UNCHANGED <<last_kbd, keystate, vkbd, devices, dev, listeners,
                         configs, cons>>]_vars

C11_Witness ==
    /\ DevEvent("DEV_MOUSE_SCROLL")
    /\ dev[ev.dev].data = NULL
    /\ ev.timeleft > 0 /\ timer = ev.timeleft
    /\ last_kbd # NULL
    /\ out = <<>>

\* C12: a scroll event from a bound device passes a press and then a release
\* of KEYD_EXTERNAL_MOUSE_BUTTON to the keyboard of that device, then sends
\* the scroll, with its two arguments as they came, to the virtual keyboard
\* (after every key the two calls emitted), and returns the incoming timeleft
\* whatever the two calls returned.
C12_ScrollPressRelease ==
    [][(DevEvent("DEV_MOUSE_SCROLL")' /\ dev[ev'.dev].data # NULL) =>
          LET o == out'
              k == dev[ev'.dev].data
              n == Len(o)
          IN  /\ Calls(o, "kbd_process_key_event")
                    = <<Call("kbd_process_key_event", k, KEYD_EXTERNAL_MOUSE_BUTTON, 1),
                        Call("kbd_process_key_event", k, KEYD_EXTERNAL_MOUSE_BUTTON, 0)>>
              /\ o[1].op = "kbd_process_key_event"
              /\ Idx(o, "vkbd_mouse_scroll") = {n}
              /\ o[n] = Call("vkbd_mouse_scroll", ev'.x, ev'.y, 0)
              /\ timer' = ev'.timeleft]_vars

C12_Witness ==
    /\ DevEvent("DEV_MOUSE_SCROLL")
    /\ dev[ev.dev].data # NULL
    /\ Idx(out, "vkbd_send_key") # {}
    /\ out[Len(out)] = Call("vkbd_mouse_scroll", 0, -1, 0)
    /\ ev.timeleft = 0 /\ timer = 0

\* C18: every keyboard that is passed a key event (from a device, from a
\* scroll, or as the tick of a timeout) belongs to an entry of the registry
\* at that moment, and a pending timer's tick will go to such a keyboard;
\* this although a reload leaves last_kbd at a keyboard it has freed.
C18_OnlyLiveKeyboardsCalled ==
    [][/\ \A i \in Idx(out', "kbd_process_key_event") : out'[i].x \in LiveKbds
       /\ timer' > 0 => last_kbd' \in LiveKbds']_vars

\* A device event is handled while last_kbd refers to a keyboard that a
\* reload has freed.
C18_Witness ==
    /\ alive /\ ev.type = "EV_DEV_EVENT"
    /\ last_kbd # NULL /\ last_kbd \notin LiveKbds
    /\ timer = 0

\* C20: DEV_REMOVE takes the device out of the table and does nothing else:
\* keystate, the virtual keyboard, last_kbd, the listener set, the registry
\* and the other devices are as before and no call is made, so a key the
\* removed device left pressed stays pressed.
C20_RemoveChangesTableOnly ==
    [][(alive' /\ ev'.type = "EV_DEV_REMOVE") =>
          /\ devices' = SelectSeq(devices, LAMBDA x : x # ev'.dev)
          /\ out' = <<>>
          /\ UNCHANGED <<keystate, vkbd, last_kbd, listeners, configs, cons>>
          /\ \A d \in DevSlots \ {ev'.dev} : dev'[d] = dev[d]]_vars

\* The only device has been removed while the key it pressed is down.
C20_Witness ==
    /\ alive /\ ev.type = "EV_DEV_REMOVE"
    /\ devices = <<>>
    /\ At(keystate, 30) = 1 /\ At(vkbd, 30) = 1
    /\ last_kbd # NULL

----------------------------------------------------------------------------
(* SpecLive: Spec with an event loop that fires every timer that stays       *)
(* pending.                                                                   *)

SpecLive == Init /\ [][Next]_vars /\ WF_vars(Timeout(Main))

\* The names a keyboard may bear
Kbds == 1 .. (2 * MaxConfigs + 1)

Called(k) == \E i \in Idx(out, "kbd_process_key_event") : out[i].x = k

\* The last handler call passed a KEY event to keyboard k and armed the
\* timer with the delay k asked for
AskedDelay(k) == DevEvent("DEV_KEY") /\ timer > 0 /\ Called(k)

\* C19 (as claimed): once a KEY event has armed the timer with the delay
\* keyboard k asked for, k is eventually called again (by the tick or by a
\* further event) unless its entry is destroyed, whatever DEV_ADD,
\* DEV_REMOVE, FD_ACTIVITY and other devices' events come in between.
C19_TickNotLost ==
    \A k \in Kbds :
        AskedDelay(k) ~> (\/ Called(k) /\ ~AskedDelay(k)
                          \/ k \notin LiveKbds)

----------------------------------------------------------------------------
(* SpecBind: devices of every kind are added and removed while the           *)
(* configuration directory changes between reloads and grabs fail.           *)

Rank1 == [id \in DevIds |-> IF id = <<1133, 50475>> THEN 1 ELSE 0]
Rank2 == [id \in DevIds |-> IF id = <<1133, 50475>> THEN 2 ELSE 0]

Bind == [Main EXCEPT
            !.disks = {Dir(<<ConfFile(Rank1)>>),
                       Dir(<<ConfFile(Rank2), SubDir>>),
                       Dir(<<ConfFile(Rank2), ConfFile(Rank1)>>),
                       Dir(<<OtherFile>>),
                       Dir(<<BadConf>>),
                       [opened |-> FALSE, ents |-> <<>>]},
            !.devs = {NewDev(1133, 50475, c, "USB device") : c \in CapSets}
                     \cup {NewDev(65535, 50475, {CAP_KEYBOARD, CAP_MOUSE}, "USB device")},
            !.grabs = BOOLEAN,
            !.grabSets = SUBSET DevSlots]

InitBind == InitFrom(Bind.disks)

NextBind ==
    \/ DevAdd(Bind)
    \/ DevRemove(Bind)
    \/ FdReload(Bind)

SpecBind == InitBind /\ [][NextBind]_vars

----------------------------------------------------------------------------
(* SpecGrab: Spec with grabs that fail and with every IPC request            *)

Grab == [Main EXCEPT !.grabs = BOOLEAN, !.grabSets = {DevSlots, {}}]

InitGrab == InitFrom(Grab.disks)

NextGrab ==
    \/ Timeout(Grab)
    \/ DevKey(Grab)
    \/ DevMouse(Grab)
    \/ DevScroll(Grab)
    \/ DevAdd(Grab)
    \/ DevRemove(Grab)
    \/ FdReload(Grab)
    \/ FdListen(Grab)
    \/ FdBind(Grab)
    \/ FdUnknown(Grab)
    \/ FdAcceptFails(Grab)

SpecGrab == InitGrab /\ [][NextGrab]_vars

\* The devices the last handler call passed to manage_device: the one that
\* add_device added, or every device of the table after a reload
Managed ==
    IF ~alive THEN {}
    ELSE IF ev.type = "EV_DEV_ADD" /\ dev[ev.dev].name # VKBD_NAME THEN {ev.dev}
    ELSE IF ReloadDone THEN Range(devices)
    ELSE {}

GrabFailed(d) == \E i \in Idx(out, "device_grab") : out[i].x = d /\ out[i].y # 0

HasPointer(d) == dev[d].capabilities \cap {CAP_MOUSE, CAP_MOUSE_ABS} # {}

\* C1: a device passed to manage_device, its grab not failing, ends up grabbed
\* and associated with the looked-up entry's keyboard iff (rank >= 1 and it
\* has the keyboard capability) or (rank = 2 and it has a pointer
\* capability); otherwise it ends up ungrabbed with a null association.
C1_BindIffRankAndCaps ==
    \A d \in Managed :
        ~GrabFailed(d) =>
            LET r == lookup_config_ent(configs, DevId(dev[d]))
                wanted == \/ r.rank >= 1 /\ CAP_KEYBOARD \in dev[d].capabilities
                          \/ r.rank = 2 /\ HasPointer(d)
            IN  IF wanted
                THEN dev[d].grabbed /\ dev[d].data = configs[r.match].kbd
                ELSE ~dev[d].grabbed /\ dev[d].data = NULL

\* A reload has just bound a rank-2 pointer-only device and left a
\* keyboard-only device of rank 0 unbound.
C1_Witness ==
    /\ ReloadDone
    /\ \E a, b \in Range(devices) :
          /\ dev[a].capabilities = {CAP_MOUSE_ABS}
          /\ lookup_config_ent(configs, DevId(dev[a])).rank = 2
          /\ dev[a].data # NULL /\ dev[a].grabbed
          /\ dev[b].capabilities = {CAP_KEYBOARD, CAP_MOUSE}
          /\ lookup_config_ent(configs, DevId(dev[b])).rank = 0
          /\ dev[b].data = NULL /\ ~dev[b].grabbed

\* C3: between handler calls every device of the table is either unbound and
\* not grabbed, or grabbed and bound to a keyboard an entry of the registry
\* owns.
C3_BoundToLiveKeyboard ==
    alive =>
        \A i \in DOMAIN devices :
            LET d == dev[devices[i]]
            IN  \/ d.data = NULL /\ ~d.grabbed
                \/ d.grabbed /\ d.data \in LiveKbds

\* After a reload that freed a registry, one device is bound and another one,
\* whose grab failed, is not.
C3_Witness ==
    /\ ReloadDone
    /\ Idx(out, "free") # {}
    /\ \E a, b \in Range(devices) :
          /\ dev[a].data \in LiveKbds /\ dev[a].grabbed
          /\ GrabFailed(b) /\ dev[b].data = NULL

\* Whether manage_device asks for a grab of device d under the registry cfgs
Wanted(cfgs, d) ==
    LET r == lookup_config_ent(cfgs, DevId(d))
    IN  \/ r.rank >= 1 /\ CAP_KEYBOARD \in d.capabilities
        \/ r.rank = 2 /\ d.capabilities \cap {CAP_MOUSE, CAP_MOUSE_ABS} # {}

\* C15: a device whose grab fails in manage_device is left with a null
\* association, ungrabbed, and in the table at its place; the failure changes
\* no other device (after add_device the others are as they were, after a
\* reload each of the others is bound as its own lookup and grab decide); and
\* an event from an unbound device is handled as a no-op.
C15_GrabFailureUnbinds ==
    [][/\ \A d \in DevSlots :
              (alive' /\ GrabFailed(d)') =>
                 /\ dev'[d].data = NULL /\ ~dev'[d].grabbed
                 /\ IF ev'.type = "EV_DEV_ADD"
                    THEN /\ devices' = Append(devices, d)
                         /\ \A x \in DevSlots \ {d} : dev'[x] = dev[x]
                    ELSE /\ devices' = devices
                         /\ \A x \in Range(devices) :
                                ~GrabFailed(x)' =>
                                   IF Wanted(configs', dev'[x])
                                   THEN /\ dev'[x].grabbed
                                        /\ dev'[x].data \in {configs'[i].kbd : i \in DOMAIN configs'}
                                   ELSE ~dev'[x].grabbed /\ dev'[x].data = NULL
       /\ (alive' /\ ev'.type = "EV_DEV_EVENT" /\ dev[ev'.dev].data = NULL) =>
              /\ out' = <<>> /\ timer' = ev'.timeleft
              /\ UNCHANGED <<last_kbd, keystate, devices, dev>>]_vars

\* A key event comes from a device the registry would bind, but whose grab
\* failed, while the other device of the table is bound.
C15_Witness ==
    /\ DevEvent("DEV_KEY")
    /\ Len(devices) = 2 /\ ev.dev = devices[1]
    /\ Wanted(configs, dev[ev.dev])
    /\ dev[ev.dev].data = NULL /\ ~dev[ev.dev].grabbed
    /\ dev[devices[2]].data # NULL
    /\ out = <<>>

----------------------------------------------------------------------------
(* SpecLookup: every directory of at most MaxConfigs entries is loaded, and  *)
(* devices are bound against what it holds.                                  *)

LookMatchers ==
    {[id \in DevIds |-> IF id = <<1133, 50475>> THEN r ELSE 0] : r \in Ranks}
    \cup {[id \in DevIds |-> IF id = <<1133, 50475>> THEN 1 ELSE 2]}

Look == [Main EXCEPT
            !.disks = Disks(LookMatchers, MaxConfigs),
            !.devs = {NewDev(v, 50475, {CAP_KEYBOARD, CAP_MOUSE}, "USB device") :
                          v \in Vendors}]

InitLookup == InitFrom(Look.disks)

NextLookup ==
    \/ DevAdd(Look)
    \/ DevRemove(Look)
    \/ FdReload(Look)

SpecLookup == InitLookup /\ [][NextLookup]_vars

RankOf(i, id) == config_check_match(configs[i].config, id)

MaxRank(id) ==
    LET rs == {RankOf(i, id) : i \in DOMAIN configs} \cup {0}
    IN  CHOOSE r \in rs : \A q \in rs : q <= r

\* C2: lookup_config_ent returns the greatest config_check_match of the
\* registry's entries (0 and no entry when there is none above 0) and, of the
\* entries of that rank, the first in iteration order, which is the one loaded
\* last since the list is in reverse load order; a bound device is associated
\* with exactly one entry, and that entry has the greatest rank for its id.
C2_LookupIsFirstMax ==
    /\ \A i, j \in DOMAIN configs : i < j => configs[i].config.path > configs[j].config.path
    /\ \A id \in DevIds :
          LET r == lookup_config_ent(configs, id)
          IN  /\ r.rank = MaxRank(id)
              /\ r.rank = 0 => r.match = NULL
              /\ r.rank > 0 =>
                    /\ r.match \in DOMAIN configs
                    /\ RankOf(r.match, id) = r.rank
                    /\ \A j \in DOMAIN configs :
                           RankOf(j, id) = r.rank =>
                               /\ r.match <= j
                               /\ configs[j].config.path <= configs[r.match].config.path
    /\ alive =>
          \A n \in DOMAIN devices :
              LET d == dev[devices[n]]
              IN  d.data # NULL =>
                      /\ Cardinality({i \in DOMAIN configs : configs[i].kbd = d.data}) = 1
                      /\ \A i \in DOMAIN configs :
                             configs[i].kbd = d.data => RankOf(i, DevId(d)) = MaxRank(DevId(d))

\* Two entries have the same greatest rank for a bound device's id, and the
\* device is bound to the one loaded last.
C2_Witness ==
    /\ Len(configs) >= 2
    /\ \E n \in DOMAIN devices :
          LET d == dev[devices[n]]
          IN  /\ RankOf(1, DevId(d)) = RankOf(2, DevId(d))
              /\ RankOf(1, DevId(d)) = MaxRank(DevId(d))
              /\ d.data = configs[1].kbd
              /\ configs[1].config.path > configs[2].config.path

----------------------------------------------------------------------------
(* SpecTable: a keyboard, a mouse and the virtual keyboard's own device come *)
(* and go, in any order, between key events and reloads.                     *)

Table == [Main EXCEPT
             !.disks = {Dir(<<ConfFile(KeyboardOnly), ConfFile(WithPointer)>>),
                        Dir(<<ConfFile(KeyboardOnly)>>)},
             !.devs = @ \cup {NewDev(1133, 50475, {CAP_KEYBOARD}, VKBD_NAME)},
             !.grabs = BOOLEAN,
             !.delays = {0}]

InitTable == InitFrom(Table.disks)

NextTable ==
    \/ DevAdd(Table)
    \/ DevRemove(Table)
    \/ DevKey(Table)
    \/ FdReload(Table)

SpecTable == InitTable /\ [][NextTable]_vars

\* C13: no device of the table bears the virtual keyboard's name; a DEV_ADD
\* of a device with that name leaves the table as it is and neither grabs nor
\* ungrabs.
C13_SinkNeverInTable ==
    [][/\ \A i \in DOMAIN devices' : dev'[devices'[i]].name # VKBD_NAME
       /\ (ev'.type = "EV_DEV_ADD" /\ dev'[ev'.dev].name = VKBD_NAME) =>
             /\ devices' = devices
             /\ out' = <<>>
             /\ ~dev'[ev'.dev].grabbed /\ dev'[ev'.dev].data = NULL
             /\ \A d \in DevSlots \ {ev'.dev} : dev'[d] = dev[d]]_vars

C13_Witness ==
    /\ alive /\ ev.type = "EV_DEV_ADD"
    /\ dev[ev.dev].name = VKBD_NAME
    /\ devices # <<>> /\ ev.dev \notin Range(devices)
    /\ \E i \in DOMAIN configs : configs[i].config.match[DevId(dev[ev.dev])] # 0

----------------------------------------------------------------------------
(* SpecIpc: clients connect with every kind of request while subscribers     *)
(* fill the listener set, the configuration changes between reloads, and    *)
(* the peers of the last two descriptors may be slow.                       *)

Ipc == [Main EXCEPT
           !.disks = {Dir(<<>>), Dir(<<ConfFile(KeyboardOnly)>>),
                      Dir(<<ConfFile(KeyboardOnly), ConfFile(WithPointer)>>)},
           !.devs = {NewDev(1133, 50475, {CAP_KEYBOARD}, "AT keyboard")},
           !.codes = {},
           !.layers = {NameOfLen(1)},
           !.delays = {0},
           !.msgs = {"IPC_SUCCESS", "garbage"},
           !.slow = {MaxListeners - 1, MaxListeners},
           !.conLimit = MaxListeners + 1]

InitIpc == InitFrom(Ipc.disks)

NextIpc ==
    \/ DevAdd(Ipc)
    \/ DevKey(Ipc)
    \/ FdReload(Ipc)
    \/ FdListen(Ipc)
    \/ FdBind(Ipc)
    \/ FdUnknown(Ipc)

SpecIpc == InitIpc /\ [][NextIpc]_vars

\* The last handler call accepted a connection and handle_client returned
HandledClient == alive /\ Idx(out, "accept") # {}

\* The connection that o accepts and the message type that o reads from it
ConOf(o) == Calls(o, "accept")[1].x
MsgOf(o) == Calls(o, "xread")[1].m

\* In o, text is the one thing written to the connection c, and c is then
\* closed, once
Answered(o, c, text) ==
    LET X == {i \in Idx(o, "xwrite") : o[i].x = c}
        K == {i \in Idx(o, "close") : o[i].x = c}
    IN  /\ Cardinality(X) = 1 /\ Cardinality(K) = 1
        /\ Before(X, K)
        /\ \A i \in X : o[i].m = text
        /\ \A i \in K : o[i].y = 0

\* C7: when handle_client returns, the accepted connection is either closed
\* after exactly one response frame (SUCCESS for RELOAD, SUCCESS or FAIL for
\* BIND, FAIL "Unknown command" for any other type but LAYER_LISTEN) or after
\* the rejection line (LAYER_LISTEN on a full set), or it is open and exactly
\* once in the listener set with nothing written to it (LAYER_LISTEN with
\* room); no connection is open outside the listener set and no listener is
\* closed.
C7_ClosedOrListening ==
    [][/\ cons' = Range(listeners') /\ NoDuplicate(listeners')
       /\ HandledClient' =>
            LET o == out'
                c == ConOf(o)
                msg == MsgOf(o)
                Closed(texts) == /\ c \notin cons' /\ c \notin Range(listeners')
                                 /\ \E t \in texts : Answered(o, c, t)
                Listening == /\ c \in cons'
                             /\ Cardinality({i \in DOMAIN listeners' :
                                                listeners'[i] = c}) = 1
                             /\ \A i \in Idx(o, "xwrite") \cup Idx(o, "close") :
                                    o[i].x # c
            IN  /\ c \notin cons
                /\ CASE msg = "IPC_RELOAD" -> Closed({"SUCCESS"})
                     [] msg = "IPC_BIND" -> Closed({"SUCCESS", FAIL_ERRSTR})
                     [] msg = "IPC_LAYER_LISTEN" ->
                            IF Len(listeners) = MaxListeners THEN Closed({REJECT})
                            ELSE Listening
                     [] OTHER -> Closed({FAIL_UNKNOWN})]_vars

C7_Witness ==
    /\ HandledClient
    /\ MsgOf(out) = "garbage"
    /\ Answered(out, ConOf(out), FAIL_UNKNOWN)
    /\ Len(listeners) > 1
    /\ ConOf(out) \notin cons

\* C8: on BIND, kbd_eval is called once on the keyboard of every registry
\* entry, in list order, whatever the earlier calls returned; the reply is
\* SUCCESS iff one of the calls returned 0 and FAIL with errstr otherwise
\* (the empty registry included); the connection is closed.
C8_BindEvaluatesAll ==
    [][(HandledClient' /\ MsgOf(out') = "IPC_BIND") =>
          LET o == out'
              E == Calls(o, "kbd_eval")
          IN  /\ configs' = configs
              /\ [i \in DOMAIN E |-> E[i].x] = [i \in DOMAIN configs |-> configs[i].kbd]
              /\ Before(Idx(o, "kbd_eval"), Idx(o, "xwrite"))
              /\ Answered(o, ConOf(o),
                          IF \E i \in DOMAIN E : E[i].y = 0 THEN "SUCCESS"
                          ELSE FAIL_ERRSTR)
              /\ ConOf(o) \notin cons']_vars

C8_Witness ==
    /\ HandledClient
    /\ MsgOf(out) = "IPC_BIND"
    /\ LET E == Calls(out, "kbd_eval")
       IN  Len(E) = 2 /\ E[1].y = 0 /\ E[2].y # 0
    /\ Answered(out, ConOf(out), "SUCCESS")

\* C9: the listener set never holds more than MaxListeners connections; a
\* LAYER_LISTEN that finds it full is written the rejection line and closed,
\* and nothing else is done: the listeners, their order and their open
\* descriptors are as before.
C9_AtMostMaxListeners ==
    [][/\ Len(listeners') <= MaxListeners
       /\ (/\ HandledClient'
           /\ MsgOf(out') = "IPC_LAYER_LISTEN"
           /\ Len(listeners) = MaxListeners) =>
             LET c == ConOf(out')
             IN  /\ c \notin cons
                 /\ out' = <<Call("accept", c, 0, 0),
                             CallM("xread", c, "IPC_LAYER_LISTEN"),
                             CallM("xwrite", c, REJECT),
                             Call("close", c, 0, 0)>>
                 /\ listeners' = listeners
                 /\ cons' = cons
                 /\ Range(listeners) \subseteq cons']_vars

C9_Witness ==
    /\ Len(listeners) = MaxListeners
    /\ \E i \in Idx(out, "xwrite") : out[i].m = REJECT

----------------------------------------------------------------------------
(* SpecCast: layer changes are broadcast to up to MaxCons subscribers, any   *)
(* of which may be slow.                                                     *)

Cast == [Main EXCEPT
            !.disks = {Dir(<<ConfFile(KeyboardOnly)>>)},
            !.devs = {NewDev(1133, 50475, {CAP_KEYBOARD}, "AT keyboard")},
            !.codes = {},
            !.layers = LayerNames,
            !.slow = 1 .. MaxCons,
            !.conLimit = MaxCons]

InitCast == InitFrom(Cast.disks)

NextCast ==
    \/ DevAdd(Cast)
    \/ DevKey(Cast)
    \/ Timeout(Cast)
    \/ FdListen(Cast)

SpecCast == InitCast /\ [][NextCast]_vars

\* C10: a broadcast writes to every listener of the set, in order, whatever
\* the earlier writes returned; afterwards the set holds exactly the
\* listeners whose write returned the length asked, in their former order,
\* and each of the others has been closed once and is gone.
C10_BroadcastKeepsFullWrites ==
    [][LET W == Calls(out', "write")
           failed == {W[i].x : i \in {j \in DOMAIN W : W[j].z # W[j].y}}
       IN  W # <<>> =>
             /\ [i \in DOMAIN W |-> W[i].x] = listeners
             /\ listeners' = SelectSeq(listeners, LAMBDA c : c \notin failed)
             /\ cons' = cons \ failed
             /\ \A c \in Range(listeners) :
                    Cardinality({i \in Idx(out', "close") : out'[i].x = c})
                        = IF c \in failed THEN 1 ELSE 0
             /\ \A i \in Idx(out', "close") : out'[i].y = 0]_vars

C10_Witness ==
    LET W == Calls(out, "write")
    IN  /\ Len(W) = 3
        /\ W[1].z = W[1].y /\ W[2].z # W[2].y /\ W[3].z = W[3].y
        /\ listeners = <<W[1].x, W[3].x>>
        /\ W[2].x \notin cons

\* C17 (as claimed): every write of a broadcast asks for, and carries, the
\* line of the layer: '+' or '-' by the state, the whole name, a newline
\* (length of the name + 2 bytes), and never asks for more bytes than the
\* formatted buffer holds.
C17_LineIsSignNameNewline ==
    LET L == Calls(out, "layer_observer")
        W == Calls(out, "write")
    IN  W # <<>> =>
          \A i \in DOMAIN W :
              /\ W[i].d = LayerLine(L[1].d, L[1].x)
              /\ W[i].y = Len(L[1].d) + 2
              /\ W[i].y <= MAX_LAYER_NAME_LEN + 2

----------------------------------------------------------------------------
(* SpecWait: the request of an IPC client arrives some time after its        *)
(* connection, or never.  accept() returns a blocking socket and             *)
(* handle_client reads the request from it at once, so between the two the   *)
(* handler stands in xread; the call record then ends with the accept.       *)

InXread == alive /\ out # <<>> /\ out[Len(out)].op = "accept"

\* EV_FD_ACTIVITY on ipcfd: the connection is accepted and handle_client
\* enters xread; the peer has sent nothing yet
FdConnect(P) ==
    /\ CanAccept(P) /\ ~InXread
    /\ Commit(Ret(Accept(State).s, timer), IpcEvent)

\* The peer sends its request (or hangs up, which leaves the message buffer
\* as it was): xread returns and handle_client runs to its end
PeerSends(P) ==
    /\ InXread
    /\ \E m \in P.msgs \cup {"IPC_LAYER_LISTEN"} :
           Commit(Ret(handle_client([State EXCEPT !.out = out], out[Len(out)].x,
                                    [NoInput EXCEPT !.msg = m]), 0),
                  IpcEvent)

Wait == [Main EXCEPT
            !.disks = {Dir(<<ConfFile(KeyboardOnly)>>)},
            !.devs = {NewDev(1133, 50475, {CAP_KEYBOARD}, "AT keyboard")},
            !.conLimit = MaxCons]

InitWait == InitFrom(Wait.disks)

\* The event loop calls the handler for the next event once the handler has
\* returned from the last one
WaitDevAdd == ~InXread /\ DevAdd(Wait)
WaitDevKey == ~InXread /\ DevKey(Wait)
WaitTimeout == ~InXread /\ Timeout(Wait)

NextWait ==
    \/ WaitDevAdd
    \/ WaitDevKey
    \/ WaitTimeout
    \/ FdConnect(Wait)
    \/ PeerSends(Wait)

\* The event loop dispatches the events of the devices and fires pending
\* timers; nothing obliges a peer to send.
SpecWait ==
    /\ InitWait
    /\ [][NextWait]_vars
    /\ WF_vars(WaitDevKey)
    /\ WF_vars(WaitTimeout)

\* C14 (as claimed): the handling of an FD_ACTIVITY event completes whatever
\* the peer does, so the event loop gets to dispatch the next event.
C14_HandlerCompletes == InXread ~> ~InXread

============================================================================
